---- MODULE Spec2Model ----
(***************************************************************************)
(* Model of scripts/test-mcp-client.py: the MCPClient class, a JSON-RPC    *)
(* client over HTTP POST with an optional server-sent-event reply.         *)
(*                                                                         *)
(* One client instance, one thread.  The client blocks in requests.post    *)
(* (line 43 in _send_request, line 82 in _send_notification); the server   *)
(* answers with any response of the set Responses, or the transport        *)
(* raises.  Every other statement runs without interruption.               *)
(*                                                                         *)
(* Spec lets a caller use the public operations in any order; SpecMain is  *)
(* the driver main(), which calls four of them in a fixed order.           *)
(***************************************************************************)
EXTENDS Naturals, Sequences, FiniteSets

(* ------------------------------ bounds --------------------------------- *)
\* number of public operations called on the client
MaxCalls == 3
\* number of lines of a response body
MaxLines == 2
\* largest id a server reply can carry
MaxReplyId == 2

(* ------------------------- optional values ----------------------------- *)
\* Python None / a header that is not there
None == <<>>
Some(v) == <<v>>

\* values the server can put in the Mcp-Session-Id response header; the
\* header can be present with an empty value
Tokens == {"", "s1", "s2"}
OptTokens == {None} \cup {Some(t) : t \in Tokens}

\* values of the Content-Type response header (None: header missing)
ContentTypes ==
  {Some("text/event-stream"), Some("application/json"),
   Some("text/event-stream; charset=utf-8"), None}

(* --------------------------- response body ----------------------------- *)
\* A piece of text that json.loads is applied to.  valid: it is one JSON
\* document; id, outcome: what the document holds.
JsonText(i, o) == [valid |-> TRUE, id |-> i, outcome |-> o]
Garbage == [valid |-> FALSE, id |-> 0, outcome |-> "garbage"]
Empty == [valid |-> FALSE, id |-> 0, outcome |-> "empty"]

\* A line of the body: lead (the line starts with blanks), then field, then
\* rest.  field is "data: " (the six characters), another SSE field, or "".
DataLine(p) == [lead |-> FALSE, field |-> "data: ", rest |-> p]
IndentedDataLine(p) == [lead |-> TRUE, field |-> "data: ", rest |-> p]
EventLine == [lead |-> FALSE, field |-> "event: ", rest |-> Garbage]
BlankLine == [lead |-> FALSE, field |-> "", rest |-> Empty]
RawLine(p) == [lead |-> FALSE, field |-> "", rest |-> p]

Lines ==
  {DataLine(JsonText(i, "result")) : i \in 1..MaxReplyId}
    \cup {DataLine(Garbage), EventLine, BlankLine,
          IndentedDataLine(JsonText(1, "result")),
          RawLine(JsonText(1, "result")), RawLine(JsonText(1, "error"))}

RECURSIVE SeqsUpTo(_, _)
SeqsUpTo(S, n) ==
  IF n = 0 THEN {<<>>}
  ELSE LET shorter == SeqsUpTo(S, n - 1)
       IN shorter \cup {Append(s, x) : s \in {t \in shorter : Len(t) = n - 1}, x \in S}

Bodies == SeqsUpTo(Lines, MaxLines)

\* what requests.post returns: the two headers the client reads and the text
Responses == [session : OptTokens, content_type : ContentTypes, text : Bodies]

\* what the server answers to a notification (the client reads none of it)
NotificationReplies ==
  [session : OptTokens, content_type : ContentTypes, text : SeqsUpTo(Lines, 1)]

(* ----------------------------- Python values --------------------------- *)
PyNone == [id |-> 0, outcome |-> "None"]
Return(v) == [kind |-> "return", val |-> v]
Raise(e) == [kind |-> "raise", val |-> [id |-> 0, outcome |-> e]]
Pending == [kind |-> "pending", val |-> PyNone]
NoPost == [type |-> "none", keys |-> {}, id |-> 0, method |-> "", session |-> None]

\* the keys of the payload dict of lines 33-38 and of lines 75-79
RequestKeys == {"jsonrpc", "id", "method", "params"}
NotificationKeys == {"jsonrpc", "method", "params"}

Last(s) == s[Len(s)]

\* the truth value of session_id in `if self.session_id:`
Truthy(s) == s # None /\ s[1] # ""

\* a parser that raises for a JSON-RPC error object
json_loads_error_raised(p) ==
  IF p.valid /\ p.outcome # "error"
  THEN Return([id |-> p.id, outcome |-> p.outcome])
  ELSE Raise("RuntimeError")

\* json.loads(text)
json_loads(p) ==
  IF p.valid THEN Return([id |-> p.id, outcome |-> p.outcome])
  ELSE Raise("JSONDecodeError")

IsBlank(l) == l.field = "" /\ l.rest = Empty

\* str.strip() on the text: blanks (line breaks included) go from both ends
RECURSIVE lstrip(_)
lstrip(text) ==
  IF text = <<>> THEN <<>>
  ELSE IF IsBlank(Head(text)) THEN lstrip(Tail(text))
  ELSE <<[Head(text) EXCEPT !.lead = FALSE]>> \o Tail(text)

RECURSIVE rstrip(_)
rstrip(text) ==
  IF text = <<>> THEN <<>>
  ELSE IF IsBlank(text[Len(text)]) THEN rstrip(SubSeq(text, 1, Len(text) - 1))
  ELSE text

strip(text) == rstrip(lstrip(text))

\* str.split('\n'): the empty text splits into one empty line
split(text) == IF text = <<>> THEN <<BlankLine>> ELSE text

\* line.startswith('data: ')
startswith_data(l) == ~l.lead /\ l.field = "data: "

\* a scan that raises when the stream holds no event
RECURSIVE sse_scan_strict(_)
sse_scan_strict(lines) ==
  IF lines = <<>> THEN Raise("ValueError")
  ELSE IF startswith_data(Head(lines)) THEN json_loads(Head(lines).rest)
  ELSE sse_scan_strict(Tail(lines))

\* the for loop of lines 54-58: the first line with the prefix decides
RECURSIVE sse_scan(_)
sse_scan(lines) ==
  IF lines = <<>> THEN Return(PyNone)
  ELSE IF startswith_data(Head(lines)) THEN json_loads(Head(lines).rest)
  ELSE sse_scan(Tail(lines))

\* response.json(): the whole text is one JSON document
response_json(text) ==
  LET content == SelectSeq(text, LAMBDA l : ~IsBlank(l))
  IN IF Len(content) = 1 /\ content[1].field = ""
     THEN json_loads(content[1].rest)
     ELSE Raise("JSONDecodeError")

\* lines 50-63 of _send_request
is_event_stream(r) == r.content_type = Some("text/event-stream")

decode(r) ==
  IF is_event_stream(r) THEN sse_scan(split(strip(r.text)))
  ELSE response_json(r.text)

\* a token that is written once and then kept
capture_first(s, r) == IF r.session # None /\ s = None THEN r.session ELSE s

\* lines 46-47 of _send_request
capture(s, r) == IF r.session # None THEN r.session ELSE s

\* a header that is always set, with the text of None when no token is held
session_header_always(s) == IF s = None THEN Some("None") ELSE s

\* lines 30-31 and 72-73: the Mcp-Session-Id request header
session_header(s) == IF Truthy(s) THEN s ELSE None

\* a counter that is read before it is incremented
_next_id_stale(m) == IF m = 0 THEN 1 ELSE m

\* lines 19-21
_next_id(m) == m + 1

\* a notification that reads the session header of its reply
after_notification_captured(s, r) == capture(s, r)

\* the response of line 82 is dropped: the token after a notification
after_notification(s, r) == s

\* an initialize that notifies only after a result, not after an error object
after_request_result_only(o, d) ==
  IF o = "initialize" /\ d.kind = "return" /\ d.val.outcome = "result"
  THEN "line_95" ELSE "idle"

\* a notification that decodes its reply as a request does
notification_outcome_decoded(r) ==
  IF decode(r).kind = "raise" THEN decode(r) ELSE Return(PyNone)

\* line 82: the value of requests.post is dropped and the function ends
notification_outcome(r) == Return(PyNone)

\* where the caller of _send_request goes on once it has the outcome d:
\* initialize goes to line 95, an exception leaves initialize
after_request(o, d) ==
  IF o = "initialize" /\ d.kind = "return" THEN "line_95" ELSE "idle"

(* ------------------------------- state --------------------------------- *)
VARIABLES
  message_id,   \* self.message_id
  session_id,   \* self.session_id
  pc,           \* where the client is
  op,           \* the public operation that is running or ran last
  calls,        \* public operations called so far
  wire,         \* the last POST: payload and session header
  request_ids,  \* the ids of the requests sent, in order
  posts,        \* POSTs issued by the operation op
  notified,     \* notifications sent by the operation op
  resp,         \* the response _send_request got in the operation op, if any
  reply_session, \* Mcp-Session-Id of the reply to the notification of op
  reply_decoded, \* whether that reply's body would decode, if there is a reply
  supplied,     \* last token a response to a request carried
  result        \* what the operation op gave its caller

vars == <<message_id, session_id, pc, op, calls, wire, request_ids, posts,
          notified, resp, reply_session,
                 reply_decoded, supplied, result>>

Init ==
  /\ message_id = 0
  /\ session_id = None
  /\ pc = "idle"
  /\ op = "none"
  /\ calls = 0
  /\ wire = NoPost
  /\ request_ids = <<>>
  /\ posts = 0
  /\ notified = 0
  /\ resp = None
  /\ reply_session = None
  /\ reply_decoded = None
  /\ supplied = None
  /\ result = Pending

(* ------------------------------ actions -------------------------------- *)
\* _send_request up to the POST of line 43
RequestPost(o, method) ==
  /\ pc = "idle"
  /\ message_id' = _next_id(message_id)
  /\ wire' = [type |-> "request", keys |-> RequestKeys,
              id |-> _next_id(message_id),
              method |-> method, session |-> session_header(session_id)]
  /\ request_ids' = Append(request_ids, _next_id(message_id))
  /\ pc' = "post_43"
  /\ op' = o
  /\ calls' = calls + 1
  /\ posts' = 1
  /\ notified' = 0
  /\ resp' = None
  /\ reply_session' = None
  /\ reply_decoded' = None
  /\ result' = Pending
  /\ UNCHANGED <<session_id, supplied>>

\* _send_notification up to the POST of line 82
NotificationPost(method) ==
  /\ wire' = [type |-> "notification", keys |-> NotificationKeys,
              id |-> 0, method |-> method,
              session |-> session_header(session_id)]
  /\ pc' = "post_82"
  /\ notified' = notified + 1
  /\ UNCHANGED <<message_id, session_id, request_ids, supplied>>

initialize == calls < MaxCalls /\ RequestPost("initialize", "initialize")

list_tools == calls < MaxCalls /\ RequestPost("list_tools", "tools/list")

call_tool == calls < MaxCalls /\ RequestPost("call_tool", "tools/call")

send_request == calls < MaxCalls /\ RequestPost("_send_request", "ping")

send_notification ==
  /\ pc = "idle"
  /\ calls < MaxCalls
  /\ NotificationPost("notifications/ping")
  /\ op' = "_send_notification"
  /\ calls' = calls + 1
  /\ posts' = 1
  /\ resp' = None
  /\ reply_session' = None
  /\ reply_decoded' = None
  /\ result' = Pending

\* line 43 returns r: lines 45-63, then back in the caller
request_response ==
  /\ pc = "post_43"
  /\ \E r \in Responses :
       /\ session_id' = capture(session_id, r)
       /\ supplied' = IF r.session # None THEN r.session ELSE supplied
       /\ resp' = Some(r)
       /\ result' = decode(r)
       /\ pc' = after_request(op, decode(r))
  /\ UNCHANGED <<message_id, op, calls, wire, request_ids, posts, notified,
                 reply_session, reply_decoded>>

\* a transport error answered by a second POST of the same payload
request_transport_error_retry ==
  /\ pc = "post_43"
  /\ posts < 2
  /\ posts' = posts + 1
  /\ UNCHANGED <<message_id, session_id, pc, op, calls, wire, request_ids,
                 notified, resp, reply_session,
                 reply_decoded, supplied, result>>

\* a transport error that gives the id of the failed request back
request_transport_error_rollback ==
  /\ pc = "post_43"
  /\ result' = Raise("ConnectionError")
  /\ pc' = "idle"
  /\ message_id' = message_id - 1
  /\ UNCHANGED <<session_id, op, calls, wire, request_ids, posts, notified,
                 resp, reply_session, reply_decoded, supplied>>

\* line 43 raises: the exception leaves _send_request and its caller
request_transport_error ==
  /\ pc = "post_43"
  /\ result' = Raise("ConnectionError")
  /\ pc' = "idle"
  /\ UNCHANGED <<message_id, session_id, op, calls, wire, request_ids, posts,
                 notified, resp, reply_session,
                 reply_decoded, supplied>>

\* line 95 of initialize
initialize_notification ==
  /\ pc = "line_95"
  /\ NotificationPost("notifications/initialized")
  /\ posts' = posts + 1
  /\ UNCHANGED <<op, calls, resp, reply_session, reply_decoded, result>>

\* line 82 returns r, which is dropped; initialize returns its result (line 96)
notification_response ==
  /\ pc = "post_82"
  /\ \E r \in NotificationReplies :
       /\ session_id' = after_notification(session_id, r)
       /\ reply_session' = r.session
       /\ reply_decoded' = Some(decode(r).kind)
       /\ result' = IF notification_outcome(r).kind = "raise"
                    THEN notification_outcome(r)
                    ELSE IF op = "initialize" THEN result
                    ELSE notification_outcome(r)
  /\ pc' = "idle"
  /\ UNCHANGED <<message_id, op, calls, wire, request_ids, posts, notified,
                 resp, supplied>>

\* a transport error of the notification that is caught and dropped
notification_transport_error_swallowed ==
  /\ pc = "post_82"
  /\ result' = IF op = "initialize" THEN result ELSE Return(PyNone)
  /\ pc' = "idle"
  /\ UNCHANGED <<message_id, session_id, op, calls, wire, request_ids, posts,
                 notified, resp, reply_session, reply_decoded, supplied>>

\* line 82 raises
notification_transport_error ==
  /\ pc = "post_82"
  /\ result' = Raise("ConnectionError")
  /\ pc' = "idle"
  /\ UNCHANGED <<message_id, session_id, op, calls, wire, request_ids, posts,
                 notified, resp, reply_session,
                 reply_decoded, supplied>>

Next ==
  \/ initialize
  \/ list_tools
  \/ call_tool
  \/ send_request
  \/ send_notification
  \/ request_response
  \/ request_transport_error
  \/ initialize_notification
  \/ notification_response
  \/ notification_transport_error

Spec == Init /\ [][Next]_vars

(* ------------------------------- main ---------------------------------- *)
\* The driver, lines 117-152: one client, four operations in a row inside
\* one try block.  calls is the number of operations started; pc is
\* "exit_0" after line 146 and "exit_1" after sys.exit(1) of line 152.

\* line 123
main_initialize ==
  /\ calls = 0
  /\ RequestPost("initialize", "initialize")

\* line 128, reached when client.initialize() returned
main_list_tools ==
  /\ calls = 1
  /\ result.kind = "return"
  /\ RequestPost("list_tools", "tools/list")

\* lines 129-132: the result object is read as a dict with a list of dicts
\* under tools; which shapes raise depends on what it holds beyond the
\* keys id and result
main_print_tools_raises ==
  /\ pc = "idle"
  /\ calls = 2
  /\ result.kind = "return"
  /\ result.val.outcome = "result"
  /\ pc' = "exit_1"
  /\ UNCHANGED <<message_id, session_id, op, calls, wire, request_ids, posts,
                 notified, resp, reply_session, reply_decoded, supplied,
                 result>>

\* line 137
main_check_dependencies ==
  /\ calls = 2
  /\ result.kind = "return"
  /\ RequestPost("call_tool(check_dependencies)", "tools/call")

\* line 142
main_list_supported_sites ==
  /\ calls = 3
  /\ result.kind = "return"
  /\ RequestPost("call_tool(list_supported_sites)", "tools/call")

\* lines 144-146, then the end of main
main_completed ==
  /\ pc = "idle"
  /\ calls = 4
  /\ result.kind = "return"
  /\ pc' = "exit_0"
  /\ UNCHANGED <<message_id, session_id, op, calls, wire, request_ids, posts,
                 notified, resp, reply_session, reply_decoded, supplied,
                 result>>

\* a driver that reports the exception of a step and goes on
main_except_continue ==
  /\ pc = "idle"
  /\ result.kind = "raise"
  /\ result' = Return(PyNone)
  /\ UNCHANGED <<message_id, session_id, pc, op, calls, wire, request_ids,
                 posts, notified, resp, reply_session, reply_decoded,
                 supplied>>

\* lines 148-152: an exception of a step ends the process with status 1
main_except ==
  /\ pc = "idle"
  /\ result.kind = "raise"
  /\ pc' = "exit_1"
  /\ UNCHANGED <<message_id, session_id, op, calls, wire, request_ids, posts,
                 notified, resp, reply_session, reply_decoded, supplied,
                 result>>

MainNext ==
  \/ main_initialize
  \/ main_list_tools
  \/ main_print_tools_raises
  \/ main_check_dependencies
  \/ main_list_supported_sites
  \/ main_completed
  \/ main_except
  \/ request_response
  \/ request_transport_error
  \/ initialize_notification
  \/ notification_response
  \/ notification_transport_error

SpecMain == Init /\ [][MainNext]_vars

(* ------------------------------ claims --------------------------------- *)
\* the operations that go through _send_request
RequestOps == {"initialize", "list_tools", "call_tool", "_send_request"}

\* _send_request has handed its outcome to its caller, which has done
\* nothing since
RequestReturned == resp # None /\ pc \in {"idle", "line_95"} /\ notified = 0

\* C1: the k-th request sent by the client carries the id k: the ids of the
\* requests are 1..N in call order, whatever was sent in between and
\* whatever the exchanges gave, and the counter stands at N.
C1_IdsInCallOrder ==
  /\ \A k \in DOMAIN request_ids : request_ids[k] = k
  /\ message_id = Len(request_ids)
  /\ wire.type = "request" => wire.id = Len(request_ids) /\ "id" \in wire.keys

\* three requests were sent and the third carries the id 3
C1_Witness ==
  /\ request_ids = <<1, 2, 3>>
  /\ wire.type = "request"
  /\ wire.id = 3

\* C2: once a response to a request has supplied the token T, every request
\* and notification posted afterwards carries exactly T in Mcp-Session-Id,
\* until a later response supplies another token.  (While the client waits
\* in a POST, supplied is the last token supplied before that POST.)
C2_TokenCarried ==
  (pc \in {"post_43", "post_82"} /\ supplied # None) => wire.session = supplied

\* C3: the initialized notification of initialize() is posted after the
\* response to the initialize request was received, and its Mcp-Session-Id
\* header is the token of that response, or, when that response carried
\* none, the token already held (no header when none is held).
C3_InitializedCarriesToken ==
  [][(pc = "line_95" /\ pc' = "post_82") =>
       /\ resp # None
       /\ wire'.method = "notifications/initialized"
       /\ wire'.session = (IF resp[1].session # None THEN resp[1].session
                           ELSE session_id)]_vars

\* C4 as stated: every initialize() whose request got an HTTP response sends
\* exactly one initialized notification, whatever the response holds.
C4_NotifiedAfterAnyResponse ==
  (pc = "idle" /\ op = "initialize" /\ resp # None) => notified = 1

\* C4, amended: an initialize() whose request got an HTTP response sends
\* exactly one initialized notification when _send_request returned (a
\* result, a JSON-RPC error object, an SSE event, or None for an SSE body
\* without a data line), and none when decoding the response raised.
C4_NotifiedAfterDecodedResponse ==
  (pc = "idle" /\ op = "initialize" /\ resp # None) =>
     /\ response_json(resp[1].text).kind = "return" /\ ~is_event_stream(resp[1])
          => notified = 1
     /\ is_event_stream(resp[1])
          /\ (\A i \in DOMAIN split(strip(resp[1].text)) :
                startswith_data(split(strip(resp[1].text))[i])
                  => split(strip(resp[1].text))[i].rest.valid)
          => notified = 1
     /\ notified = (IF decode(resp[1]).kind = "return" THEN 1 ELSE 0)

\* initialize() has returned a JSON-RPC error object and has notified once
C4_Witness ==
  /\ pc = "idle"
  /\ op = "initialize"
  /\ result.kind = "return"
  /\ result.val.outcome = "error"
  /\ notified = 1

\* C5 as stated: every public operation issues exactly one POST per call.
C5_OnePostPerCall == (pc = "idle" /\ op # "none") => posts = 1

\* C5, amended: list_tools, call_tool, _send_request and _send_notification
\* issue exactly one POST per call, with no second attempt after a failure;
\* initialize issues one POST for the request and, when that exchange
\* returned, a second one for the notification, so two, or one when the
\* first exchange raised.  No operation is back in its caller with a POST
\* still open.
C5_PostsPerCall ==
  /\ (pc = "idle" /\ op # "none") =>
        posts = (IF op = "initialize" /\ resp # None
                      /\ decode(resp[1]).kind = "return"
                 THEN 2 ELSE 1)
  /\ pc # "idle" => posts \in 1..2 /\ (posts = 2 => op = "initialize")
  /\ (pc = "idle" /\ op # "none") => result.kind \in {"return", "raise"}

\* list_tools has returned after a transport error with its one POST, and
\* an earlier operation has run
C5_Witness ==
  /\ pc = "idle"
  /\ op = "list_tools"
  /\ result = Raise("ConnectionError")
  /\ posts = 1
  /\ calls = 2

\* C6: a message returned by _send_request carries the id that the call put
\* in its request.
C6_ReturnedIdIsRequestId ==
  (pc = "idle" /\ op \in RequestOps /\ result.kind = "return"
     /\ result.val # PyNone)
    => result.val.id = Last(request_ids)

\* C7: no operation clears the token: once a response to a request has
\* carried Mcp-Session-Id the client holds a token; after a response with
\* the header the held token is the header's value, whatever was held
\* before, and after a response without it the held token is unchanged.
C7_TokenKept ==
  /\ [](supplied # None => session_id # None /\ session_id = supplied)
  /\ [][/\ session_id # None => session_id' # None
        /\ (pc = "post_43" /\ resp' # None) =>
             session_id' = (IF resp'[1].session # None THEN resp'[1].session
                            ELSE session_id)]_vars

\* the token s1, sent with the last request, was replaced by s2
C7_Witness ==
  /\ pc = "idle"
  /\ wire.type = "request"
  /\ wire.session = Some("s1")
  /\ resp # None
  /\ resp[1].session = Some("s2")
  /\ session_id = Some("s2")

\* C8: a notification consumes no id and leaves the token alone: when it is
\* posted and when its reply arrives, the counter, the list of request ids
\* and the held token stay as they are, whatever the reply's headers, and
\* its payload has no id key.
C8_NotificationFrame ==
  [][(pc' = "post_82" \/ pc = "post_82") =>
       /\ message_id' = message_id
       /\ request_ids' = request_ids
       /\ session_id' = session_id
       /\ pc' = "post_82" => "id" \notin wire'.keys]_vars

\* a notification came back with a reply that carried a token, after one
\* request, and the client holds no token
C8_Witness ==
  /\ pc = "idle"
  /\ op = "_send_notification"
  /\ reply_session = Some("s1")
  /\ session_id = None
  /\ message_id = 1

\* C9: on the SSE path the decoder returns the first data line that parses
\* as JSON: lines without the prefix and data lines that do not parse are
\* skipped, and a later data line that parses is returned.
C9_FirstParsedDataLine ==
  (RequestReturned /\ is_event_stream(resp[1]))
    => LET lines == split(strip(resp[1].text))
           parsed == {i \in DOMAIN lines :
                        startswith_data(lines[i]) /\ lines[i].rest.valid}
           first == CHOOSE i \in parsed : \A j \in parsed : i <= j
       IN parsed # {} =>
            result = Return([id |-> lines[first].rest.id,
                             outcome |-> lines[first].rest.outcome])

C11_PathByContentType ==
  RequestReturned =>
    result = (IF resp[1].content_type \in
                   {Some("text/event-stream"),
                    Some("text/event-stream; charset=utf-8")}
              THEN sse_scan(split(strip(resp[1].text)))
              ELSE response_json(resp[1].text))

\* C12: _send_notification gives its caller nothing and never raises for
\* what the server replied: whatever the reply's headers and body (empty,
\* not JSON, SSE, error object), the call ends with None, and initialize
\* keeps the result of its request; only an exception of requests.post
\* itself leaves the call.
C12_ReplyDiscarded ==
  /\ [](pc = "idle" /\ op = "_send_notification" =>
          \/ result = Return(PyNone) /\ reply_decoded # None
          \/ result = Raise("ConnectionError") /\ reply_decoded = None)
  /\ [][(pc = "post_82" /\ reply_decoded' # None) =>
          /\ result'.kind = "return"
          /\ op = "_send_notification" => result' = Return(PyNone)
          /\ op = "initialize" => result' = result]_vars

\* a notification got a reply with a token and a body that does not decode,
\* and ended with None
C12_Witness ==
  /\ pc = "idle"
  /\ op = "_send_notification"
  /\ reply_decoded = Some("raise")
  /\ reply_session = Some("s2")
  /\ result = Return(PyNone)

\* C13: the client asks for no session: the first operation on a fresh
\* client, list_tools or call_tool, posts a well-formed request (the four
\* keys jsonrpc, id, method, params; method tools/list or tools/call) with
\* id 1 and no Mcp-Session-Id header; and no request or notification
\* carries that header before a response has supplied a token.
C13_NoSessionPrecondition ==
  /\ (calls = 1 /\ op \in {"list_tools", "call_tool"}) =>
        wire = [type |-> "request", keys |-> RequestKeys, id |-> 1,
                method |-> (IF op = "list_tools" THEN "tools/list"
                            ELSE "tools/call"),
                session |-> None]
  /\ supplied = None => wire.session = None

\* call_tool is the first operation and its request is on the wire
C13_Witness ==
  /\ calls = 1
  /\ op = "call_tool"
  /\ pc = "post_43"
  /\ wire.id = 1
  /\ wire.session = None

\* C14: on the JSON path a body that is one JSON document is returned as
\* parsed, an error object exactly like a result: no exception, the id of
\* the call consumed and a token of the response held.
C14_ErrorReturnedLikeResult ==
  (RequestReturned /\ ~is_event_stream(resp[1]))
    => \A i \in DOMAIN resp[1].text :
         LET line == resp[1].text[i]
         IN (/\ line.field = ""
             /\ line.rest.valid
             /\ \A j \in DOMAIN resp[1].text \ {i} : IsBlank(resp[1].text[j]))
            => /\ result = Return([id |-> line.rest.id,
                                   outcome |-> line.rest.outcome])
               /\ pc = (IF op = "initialize" THEN "line_95" ELSE "idle")
               /\ message_id = wire.id
               /\ message_id = Last(request_ids)
               /\ resp[1].session # None => session_id = resp[1].session

\* call_tool got a JSON-RPC error object as application/json, with a token,
\* and returned it
C14_Witness ==
  /\ pc = "idle"
  /\ op = "call_tool"
  /\ resp # None
  /\ resp[1].content_type = Some("application/json")
  /\ resp[1].session = Some("s1")
  /\ result = Return([id |-> 1, outcome |-> "error"])
  /\ session_id = Some("s1")

\* C15: the driver runs initialize, list_tools, call_tool(check_dependencies)
\* and call_tool(list_supported_sites) in that order on one client: the
\* k-th request carries the id k and the k-th method of initialize,
\* tools/list, tools/call, tools/call; the only notification is
\* notifications/initialized, posted last before the request 2; a run
\* without failure ends after the ids 1, 2, 3, 4; when a step has raised,
\* the next thing that happens is the exit with status 1, with no further
\* POST, and nothing happens after the exit.
C15_DriverSequence ==
  /\ [](/\ request_ids = [k \in 1..calls |-> k]
        /\ calls >= 1 =>
             op = <<"initialize", "list_tools",
                    "call_tool(check_dependencies)",
                    "call_tool(list_supported_sites)">>[calls]
        /\ wire.type = "request" =>
             /\ wire.id = calls
             /\ wire.method = <<"initialize", "tools/list", "tools/call",
                                "tools/call">>[calls]
        /\ wire.type = "notification" =>
             calls = 1 /\ wire.method = "notifications/initialized"
        /\ pc = "exit_0" =>
             calls = 4 /\ request_ids = <<1, 2, 3, 4>> /\ result.kind = "return")
  /\ [][/\ (calls = 1 /\ calls' = 2) => wire.type = "notification"
        /\ (pc = "idle" /\ result.kind = "raise") =>
             pc' = "exit_1" /\ wire' = wire /\ calls' = calls
        /\ pc \in {"exit_0", "exit_1"} => pc' = pc /\ wire' = wire]_vars

\* the run without failure has ended: four requests, status 0
C15_Witness ==
  /\ pc = "exit_0"
  /\ request_ids = <<1, 2, 3, 4>>
  /\ wire.method = "tools/call"
  /\ op = "call_tool(list_supported_sites)"

\* C16: the token is captured before the body is decoded: when a response
\* carries Mcp-Session-Id and its body fails to decode or yields no
\* message, the client holds the header's value, and the next request or
\* notification it posts carries that value.
C16_CapturedTokenAttached ==
  /\ [](RequestReturned /\ resp[1].session # None
          /\ (result.kind = "raise" \/ result = Return(PyNone))
        => session_id = resp[1].session)
  /\ [][(RequestReturned /\ resp[1].session # None
           /\ (result.kind = "raise" \/ result = Return(PyNone))
           /\ pc' \in {"post_43", "post_82"})
        => wire'.session = resp[1].session]_vars

\* C17: when the POST of a request raises, the exception reaches the
\* caller, the token is as before and the id stays consumed: the counter
\* keeps the id of the failed request, and every request takes the id after
\* the counter, so the failed id is not used again.
C17_FailedIdStaysConsumed ==
  [][/\ (pc = "post_43" /\ resp' = None) =>
          /\ result' = Raise("ConnectionError")
          /\ pc' = "idle"
          /\ session_id' = session_id
          /\ message_id' = message_id
          /\ message_id = wire.id
     /\ pc' = "post_43" =>
          /\ wire'.id = message_id + 1
          /\ \A k \in DOMAIN request_ids : request_ids[k] < wire'.id]_vars

\* the token s1 is held and the request 2 failed in the transport: the
\* counter stands at 2 and the token is still s1
C17_Witness ==
  /\ pc = "idle"
  /\ op = "call_tool"
  /\ resp = None
  /\ result = Raise("ConnectionError")
  /\ message_id = 2
  /\ request_ids = <<1, 2>>
  /\ session_id = Some("s1")

\* C18: when the POST of the initialized notification raises, initialize()
\* ends with that exception and gives no result, while the id taken by the
\* initialize request stays consumed and the token of its response stays
\* held; initialize() returns the message of its request when the
\* notification got a reply.
C18_InitializeFailsInNotification ==
  /\ [](pc = "idle" /\ op = "initialize" /\ notified = 1 =>
          /\ reply_decoded = None => result = Raise("ConnectionError")
          /\ reply_decoded # None => result = decode(resp[1])
                                       /\ result.kind = "return"
          /\ message_id = Last(request_ids)
          /\ resp[1].session # None => session_id = resp[1].session)
  /\ [][(pc = "post_82" /\ op = "initialize" /\ pc' = "idle") =>
          /\ message_id' = message_id
          /\ session_id' = session_id
          /\ reply_decoded' # None => result' = result]_vars

\* initialize() ended with the transport error of its notification; the id
\* 1 is consumed and the token s1 of the initialize response is held
C18_Witness ==
  /\ pc = "idle"
  /\ op = "initialize"
  /\ notified = 1
  /\ reply_decoded = None
  /\ result = Raise("ConnectionError")
  /\ message_id = 1
  /\ resp # None
  /\ resp[1].session = Some("s1")
  /\ session_id = Some("s1")
====
